---- MODULE Spec2Model ----
(***************************************************************************)
(* Model of src/app.py: a Streamlit script that extracts the text of an    *)
(* uploaded job description, asks a chat-completion API for structured     *)
(* fields, asks it again for a spoken introduction and offers to turn the  *)
(* introduction into audio.                                                *)
(*                                                                         *)
(* Strings are modelled by what the code observes of them: their length,   *)
(* their leading and trailing whitespace and whether they start with the   *)
(* marker "__READ_ERROR__".  A model reply is a sequence of JSON tokens.   *)
(***************************************************************************)
EXTENDS Integers, Sequences, FiniteSets, TLC

----------------------------------------------------------------------------
(* Bounds of the model *)

\* longest run of whitespace at either end of a text
MaxWs == 1
\* most pages / paragraphs of a document
MaxParts == 2
\* most tokens of a model reply
MaxReplyLen == 3
\* number of browser sessions running the script
NumSessions == 2
\* length of the message of a caught exception
ErrMsgLen == 20

(* Program constants *)

\* len("__READ_ERROR__")
MarkerLen == 14
\* the short-text threshold
ShortLimit == 50

----------------------------------------------------------------------------
(* Strings.  [lead, marker, body, trail] is the string made of `lead`      *)
(* whitespace characters, then "__READ_ERROR__" when marker, then `body`   *)
(* characters that neither start nor end with whitespace, then `trail`     *)
(* whitespace characters.  A string of whitespace alone keeps it in lead.  *)

Str(l, m, b, t) == [lead |-> l, marker |-> m, body |-> b, trail |-> t]

Empty == Str(0, FALSE, 0, 0)

Newline == Str(1, FALSE, 0, 0)

IsBlank(s) == ~s.marker /\ s.body = 0

StrLen(s) == s.lead + (IF s.marker THEN MarkerLen ELSE 0) + s.body + s.trail

\* a + b
Cat(a, b) ==
    IF IsBlank(a) THEN
        IF IsBlank(b) THEN Str(a.lead + b.lead, FALSE, 0, 0)
        ELSE [b EXCEPT !.lead = a.lead + b.lead]
    ELSE IF IsBlank(b) THEN [a EXCEPT !.trail = a.trail + b.lead]
    ELSE Str(a.lead, a.marker,
             a.body + a.trail + b.lead
               + (IF b.marker THEN MarkerLen ELSE 0) + b.body,
             b.trail)

\* str.strip()
Strip(s) == IF IsBlank(s) THEN Empty ELSE [s EXCEPT !.lead = 0, !.trail = 0]

\* str.startswith("__READ_ERROR__")
StartsWithMarker(s) == s.lead = 0 /\ s.marker

\* f"__READ_ERROR__:{str(e)}"
ReadError == Str(0, TRUE, 1 + ErrMsgLen, 0)

----------------------------------------------------------------------------
(* Documents.  A file is [ok, parts]: ok says that the bytes can be read   *)
(* as the format the type tag names; parts are its pages (pdf), its        *)
(* paragraphs (docx) or its whole content (txt).  A pdf page whose         *)
(* extract_text() is None has present = FALSE.                             *)

Part(p, s) == [present |-> p, text |-> s]

RECURSIVE JoinPages(_, _)
\* for page in reader.pages: text += (page.extract_text() or "") + "\n"
JoinPages(text, parts) ==
    IF parts = << >> THEN text
    ELSE JoinPages(
           Cat(Cat(text, IF Head(parts).present THEN Head(parts).text ELSE Empty),
               Newline),
           Tail(parts))

RECURSIVE JoinParas(_, _)
\* for para in doc.paragraphs: text += para.text + "\n"
JoinParas(text, parts) ==
    IF parts = << >> THEN text
    ELSE JoinParas(Cat(Cat(text, Head(parts).text), Newline), Tail(parts))

\* f.read() of a text file
ReadAll(parts) == IF parts = << >> THEN Empty ELSE Head(parts).text

\* whether the try block of extract_text raises
ExtractRaises(doc, file_type) ==
    file_type \in {"pdf", "docx", "txt"} /\ ~doc.ok

extract_text(doc, file_type) ==
    IF ExtractRaises(doc, file_type) THEN ReadError
    ELSE Strip(CASE file_type = "pdf"  -> JoinPages(Empty, doc.parts)
                 [] file_type = "docx" -> JoinParas(Empty, doc.parts)
                 [] file_type = "txt"  -> ReadAll(doc.parts)
                 [] OTHER              -> Empty)

----------------------------------------------------------------------------
(* JSON.  A model reply is a sequence of tokens:                           *)
(*   "{" "}" ","   punctuation                                             *)
(*   "k"           a member  "job_title": "..."                            *)
(*   "e"           a member  "error": "..."                                *)
(*   "n"           the literal null (or a number)                          *)
(*   "s"           a string literal                                        *)
(*   "a"           an array literal                                        *)
(*   "p"           prose, which is no JSON                                 *)

Tokens == {"{", "}", ",", "k", "e", "n", "s", "a", "p"}

\* A Python value as the script observes it: its type, the members that
\* the operator `in` finds in it, and the raw reply an error record carries.
Value(k, m, r) == [kind |-> k, members |-> m, raw |-> r]

None == Value("none", {}, << >>)

KeyOf(tok) == IF tok = "e" THEN "error" ELSE "job_title"

\* the token sequence is a JSON object
IsObject(c) ==
    /\ Len(c) >= 2
    /\ c[1] = "{"
    /\ c[Len(c)] = "}"
    /\ \/ Len(c) = 2
       \/ /\ Len(c) % 2 = 1
          /\ \A i \in 2..(Len(c) - 1) :
                IF i % 2 = 0 THEN c[i] \in {"k", "e"} ELSE c[i] = ","

\* json.loads raises JSONDecodeError
JsonFails(c) == ~(IsObject(c) \/ c \in {<<"n">>, <<"s">>, <<"a">>})

\* json.loads(c) when it does not raise
JsonLoads(c) ==
    IF IsObject(c)
    THEN Value("dict", {KeyOf(c[i]) : i \in {j \in 2..(Len(c) - 1) : j % 2 = 0}}, << >>)
    ELSE CASE c = <<"n">> -> None
           [] c = <<"s">> -> Value("str", {}, << >>)
           [] OTHER       -> Value("list", {}, << >>)

\* re.search(r"\{[\s\S]*\}", content): from the first "{" to the last "}"
HasBraces(c) ==
    \E i, j \in 1..Len(c) : i < j /\ c[i] = "{" /\ c[j] = "}"

BraceMatch(c) ==
    LET first == CHOOSE i \in 1..Len(c) :
                    c[i] = "{" /\ \A h \in 1..(i - 1) : c[h] # "{"
        last  == CHOOSE j \in 1..Len(c) :
                    c[j] = "}" /\ \A h \in (j + 1)..Len(c) : c[h] # "}"
    IN  SubSeq(c, first, last)

\* {"error": str(e)}
ErrorRecord == Value("dict", {"error"}, << >>)

\* {"error": "No valid JSON detected", "raw_output": content}
NoJsonRecord(content) == Value("dict", {"error", "raw_output"}, content)

\* What the API call of either client comes to: the request fails
\* (timeout, connection), the status is not 2xx, the body has no
\* choices[0].message.content, or the model's reply arrives.
ApiOutcome(k, c) == [kind |-> k, content |-> c]

ApiFailures == {ApiOutcome(k, << >>) : k \in {"timeout", "http_error", "bad_body"}}

extract_job_fields(api) ==
    IF api.kind # "reply" THEN ErrorRecord
    ELSE IF ~JsonFails(api.content) THEN JsonLoads(api.content)
    ELSE IF HasBraces(api.content)
         THEN IF JsonFails(BraceMatch(api.content)) THEN ErrorRecord
              ELSE JsonLoads(BraceMatch(api.content))
         ELSE NoJsonRecord(api.content)

\* The reply to the introduction request: its kind as above and the
\* text of the model's reply.
ChatOutcome(k, s) == [kind |-> k, text |-> s]

\* The introduction: [error, text].  error marks the string
\* f"Error generating intro: {str(e)}".
Intro(e, s) == [error |-> e, text |-> s]

NoIntro == Intro(FALSE, Empty)

generate_job_intro(chat) ==
    IF chat.kind # "reply" THEN Intro(TRUE, Str(0, FALSE, ErrMsgLen, 0))
    ELSE Intro(FALSE, Strip(chat.text))

\* "error" in job_json raises TypeError
InRaises(v) == v.kind \notin {"dict", "list", "str"}

\* "error" in job_json
HasError(v) == "error" \in v.members

----------------------------------------------------------------------------
(* The shell.  Streamlit runs the script from the top once per user        *)
(* interaction of a session (a pass).  The uploader keeps its file across  *)
(* passes; a button reads True only in the pass its own click started.     *)

Sessions == 1..NumSessions

Exts == {"pdf", "docx", "txt"}

Doc(ok, parts) == [ok |-> ok, parts |-> parts]

NoDoc == Doc(FALSE, << >>)

\* the uploader's value: the file's extension and its content
Upload(ext, doc) == [ext |-> ext, doc |-> doc]

NoUpload == Upload("none", NoDoc)

VARIABLES
    uploaded_file,  \* per session: the uploader's file (kept by the framework)
    clicked,        \* per session: what started the pass: "none", "upload",
                    \*   "extract" or "convert"
    pc,             \* per session: the line the pass has reached, or "idle"
    disk,           \* UPLOAD_PATH/jobdesc.<ext>: per extension, the file's content
    audio_file,     \* UPLOAD_PATH/job_intro.wav: the introduction it holds
    job_text, job_json, job_intro,   \* per session: the script's variables
    shown,          \* per session: the elements the pass has rendered
    fault,          \* per session: the pass ended in an uncaught exception
    calls,          \* per session: the stage calls of the pass, in order
    read_ok,        \* per session: extract_text took no exception in this pass
    read_of,        \* per session: the session whose upload the pass read
    last_writer,    \* per extension: the session that wrote the file last
    req_text,       \* per session: the text sent with the field request
    intro_seen,     \* per session: the introduction on screen when
                    \*   "Convert to Audio" was clicked
    txt_in, txt_out, api_in, api_out   \* direct calls of the two functions

shell_vars == <<uploaded_file, clicked, pc, disk, audio_file, job_text, job_json,
                job_intro, shown, fault, calls, read_ok, read_of, last_writer,
                req_text, intro_seen>>

fn_vars == <<txt_in, txt_out, api_in, api_out>>

vars == <<shell_vars, fn_vars>>

NoAudio == [written |-> FALSE, intro |-> NoIntro]

FnIdle ==
    /\ txt_in = [doc |-> NoDoc, file_type |-> "none", called |-> FALSE]
    /\ txt_out = Empty
    /\ api_in = [api |-> ApiOutcome("none", << >>), called |-> FALSE]
    /\ api_out = None

ShellInit ==
    /\ uploaded_file = [s \in Sessions |-> NoUpload]
    /\ clicked = [s \in Sessions |-> "none"]
    /\ pc = [s \in Sessions |-> "idle"]
    /\ disk = [e \in Exts |-> [exists |-> FALSE, doc |-> NoDoc]]
    /\ audio_file = NoAudio
    /\ job_text = [s \in Sessions |-> Empty]
    /\ job_json = [s \in Sessions |-> None]
    /\ job_intro = [s \in Sessions |-> NoIntro]
    /\ shown = [s \in Sessions |-> {}]
    /\ fault = [s \in Sessions |-> FALSE]
    /\ calls = [s \in Sessions |-> << >>]
    /\ read_ok = [s \in Sessions |-> FALSE]
    /\ read_of = [s \in Sessions |-> 0]
    /\ last_writer = [e \in Exts |-> 0]
    /\ req_text = [s \in Sessions |-> Empty]
    /\ intro_seen = [s \in Sessions |-> NoIntro]

\* a button that reads True in every pass
ButtonAlwaysPressed(s, b) == clicked[s] # "none"

\* st.button(label): True only in the pass that the click of this button started
ButtonPressed(s, b) == clicked[s] = b

\* The script starts again from the top: its variables are unset and the
\* page is redrawn.  `if uploaded_file:` skips everything without a file.
StartPass(s, trigger, file) ==
    /\ clicked' = [clicked EXCEPT ![s] = trigger]
    /\ pc' = [pc EXCEPT ![s] = IF file.ext = "none" THEN "idle" ELSE "write"]
    /\ job_text' = [job_text EXCEPT ![s] = Empty]
    /\ job_json' = [job_json EXCEPT ![s] = None]
    /\ job_intro' = [job_intro EXCEPT ![s] = NoIntro]
    /\ shown' = [shown EXCEPT ![s] = {}]
    /\ fault' = [fault EXCEPT ![s] = FALSE]
    /\ calls' = [calls EXCEPT ![s] = << >>]
    /\ read_ok' = [read_ok EXCEPT ![s] = FALSE]
    /\ read_of' = [read_of EXCEPT ![s] = 0]
    /\ req_text' = [req_text EXCEPT ![s] = Empty]

\* The user picks a file in the uploader.
UserUpload(s, files) ==
    /\ pc[s] = "idle"
    /\ \E f \in files :
          /\ uploaded_file' = [uploaded_file EXCEPT ![s] = f]
          /\ StartPass(s, "upload", f)
    /\ UNCHANGED <<disk, audio_file, last_writer, intro_seen, fn_vars>>

\* The user clicks "Extract Job Fields", which the last pass rendered.
ClickExtract(s) ==
    /\ pc[s] = "idle"
    /\ "extract_button" \in shown[s]
    /\ StartPass(s, "extract", uploaded_file[s])
    /\ UNCHANGED <<uploaded_file, disk, audio_file, last_writer, intro_seen, fn_vars>>

\* The user clicks "Convert to Audio", which the last pass rendered.
ClickConvert(s) ==
    /\ pc[s] = "idle"
    /\ "convert_button" \in shown[s]
    /\ intro_seen' = [intro_seen EXCEPT ![s] = job_intro[s]]
    /\ StartPass(s, "convert", uploaded_file[s])
    /\ UNCHANGED <<uploaded_file, disk, audio_file, last_writer, fn_vars>>

\* file_ext = uploaded_file.name.split(".")[-1].lower()
file_ext(s) == uploaded_file[s].ext

\* a write that waits while another session has written the path and not
\* yet read it
WriteUploadLocked(s) ==
    /\ pc[s] = "write"
    /\ \A t \in Sessions \ {s} :
          ~(pc[t] = "read" /\ uploaded_file[t].ext = uploaded_file[s].ext)
    /\ disk' = [disk EXCEPT ![uploaded_file[s].ext] =
                  [exists |-> TRUE, doc |-> uploaded_file[s].doc]]
    /\ last_writer' = [last_writer EXCEPT ![uploaded_file[s].ext] = s]
    /\ pc' = [pc EXCEPT ![s] = "read"]
    /\ UNCHANGED <<uploaded_file, clicked, audio_file, job_text, job_json,
                   job_intro, shown, fault, calls, read_ok, read_of, req_text,
                   intro_seen, fn_vars>>

\* with open(file_path, "wb") as f: f.write(uploaded_file.read())
WriteUpload(s) ==
    /\ pc[s] = "write"
    /\ disk' = [disk EXCEPT ![file_ext(s)] =
                  [exists |-> TRUE, doc |-> uploaded_file[s].doc]]
    /\ last_writer' = [last_writer EXCEPT ![file_ext(s)] = s]
    /\ pc' = [pc EXCEPT ![s] = "read"]
    /\ UNCHANGED <<uploaded_file, clicked, audio_file, job_text, job_json,
                   job_intro, shown, fault, calls, read_ok, read_of, req_text,
                   intro_seen, fn_vars>>

\* job_text = extract_text(file_path, file_type=file_ext)
ExtractText(s) ==
    /\ pc[s] = "read"
    /\ job_text' = [job_text EXCEPT ![s] =
                      extract_text(disk[file_ext(s)].doc, file_ext(s))]
    /\ read_ok' = [read_ok EXCEPT ![s] =
                      ~ExtractRaises(disk[file_ext(s)].doc, file_ext(s))]
    /\ read_of' = [read_of EXCEPT ![s] = last_writer[file_ext(s)]]
    /\ calls' = [calls EXCEPT ![s] = Append(@, "extract_text")]
    /\ pc' = [pc EXCEPT ![s] = "branch"]
    /\ UNCHANGED <<uploaded_file, clicked, disk, audio_file, job_json, job_intro,
                   shown, fault, last_writer, req_text, intro_seen, fn_vars>>

\* a branch without the short-text test
TextPathNoShortGuard(text) ==
    IF StartsWithMarker(text) THEN "read_error" ELSE "ok"

\* the branch the script takes on job_text
TextPath(text) ==
    IF StartsWithMarker(text) THEN "read_error"
    ELSE IF StrLen(Strip(text)) < ShortLimit THEN "short"
    ELSE "ok"

\* if job_text.startswith(...): st.error  elif len(...) < 50: st.warning
\* else: st.text_area; if st.button("Extract Job Fields"): ...
Branch(s) ==
    /\ pc[s] = "branch"
    /\ LET path == TextPath(job_text[s]) IN
         /\ shown' = [shown EXCEPT ![s] =
                        CASE path = "read_error" -> {"read_error"}
                          [] path = "short"      -> {"short_warning"}
                          [] OTHER               -> {"text_area", "extract_button"}]
         /\ pc' = [pc EXCEPT ![s] =
                     IF path = "ok" /\ ButtonPressed(s, "extract")
                     THEN "fields" ELSE "idle"]
    /\ UNCHANGED <<uploaded_file, clicked, disk, audio_file, job_text, job_json,
                   job_intro, fault, calls, read_ok, read_of, last_writer,
                   req_text, intro_seen, fn_vars>>

\* job_json = extract_job_fields(job_text); st.json(job_json);
\* if "error" not in job_json: ...
CallExtractFields(s, outcomes) ==
    /\ pc[s] = "fields"
    /\ \E api \in outcomes :
         LET v == extract_job_fields(api) IN
           /\ job_json' = [job_json EXCEPT ![s] = v]
           /\ fault' = [fault EXCEPT ![s] = InRaises(v)]
           /\ pc' = [pc EXCEPT ![s] =
                       IF InRaises(v) \/ HasError(v) THEN "idle" ELSE "intro"]
    /\ req_text' = [req_text EXCEPT ![s] = job_text[s]]
    /\ calls' = [calls EXCEPT ![s] = Append(@, "extract_job_fields")]
    /\ shown' = [shown EXCEPT ![s] = @ \cup {"json"}]
    /\ UNCHANGED <<uploaded_file, clicked, disk, audio_file, job_text, job_intro,
                   read_ok, read_of, last_writer, intro_seen, fn_vars>>

\* job_intro = generate_job_intro(job_json); st.text_area(...);
\* if st.button("Convert to Audio"): try: tts.tts_to_file(text=job_intro, ...)
\* st.audio(...) except: st.error(...)
CallIntro(s, outcomes) ==
    /\ pc[s] = "intro"
    /\ \E chat \in outcomes, tts_ok \in BOOLEAN :
         LET intro == generate_job_intro(chat)
             press == ButtonPressed(s, "convert")
         IN
           /\ job_intro' = [job_intro EXCEPT ![s] = intro]
           /\ calls' = [calls EXCEPT ![s] =
                          IF press
                          THEN @ \o <<"generate_job_intro", "tts_to_file">>
                          ELSE Append(@, "generate_job_intro")]
           /\ audio_file' = IF press /\ tts_ok
                            THEN [written |-> TRUE, intro |-> intro]
                            ELSE audio_file
           /\ shown' = [shown EXCEPT ![s] =
                          @ \cup {"intro_area", "convert_button"}
                            \cup (IF ~press THEN {}
                                  ELSE IF tts_ok THEN {"audio"} ELSE {"tts_error"})]
    /\ pc' = [pc EXCEPT ![s] = "idle"]
    /\ UNCHANGED <<uploaded_file, clicked, disk, job_text, job_json, fault,
                   read_ok, read_of, last_writer, req_text, intro_seen, fn_vars>>

----------------------------------------------------------------------------
(* Inputs *)

\* lengths around the short-text threshold, with and without the marker
BodyLens == {0, 1, ShortLimit - MarkerLen - 1, ShortLimit - MarkerLen,
             ShortLimit - 1, ShortLimit}

Texts ==
    {Str(l, m, b, tr) : l \in 0..MaxWs, m \in BOOLEAN, b \in BodyLens, tr \in 0..MaxWs}
      \ {x \in [lead : 0..MaxWs, marker : {FALSE}, body : {0}, trail : 1..MaxWs] : TRUE}

SeqsUpTo(S, n) == UNION {[1..k -> S] : k \in 0..n}

Replies == SeqsUpTo(Tokens, MaxReplyLen)

FnParts == {Part(TRUE, x) : x \in Texts} \cup {Part(FALSE, Empty)}

FnDocs == {Doc(ok, ps) : ok \in BOOLEAN, ps \in SeqsUpTo(FnParts, MaxParts)}

\* the type tags extract_text is called with: the three it knows and one more
TypeTags == Exts \cup {"md"}

TxtDoc(x) == Doc(TRUE, <<Part(TRUE, x)>>)

\* what one user uploads: the uploader accepts pdf, docx and txt only
ShellUploads ==
    {Upload("txt", TxtDoc(x)) :
        x \in {Str(0, FALSE, ShortLimit - 1, 0),
               Str(0, FALSE, ShortLimit, 0),
               Str(MaxWs, FALSE, ShortLimit - 1, MaxWs),
               Str(0, TRUE, ShortLimit - MarkerLen - 1, 0),
               Str(MaxWs, TRUE, ShortLimit, 0),
               Empty}}
    \cup {Upload(e, Doc(FALSE, << >>)) : e \in Exts}
    \cup {Upload("pdf", Doc(TRUE, <<Part(FALSE, Empty),
                                    Part(TRUE, Str(0, FALSE, ShortLimit, 0))>>)),
          Upload("docx", Doc(TRUE, <<Part(TRUE, Str(0, FALSE, ShortLimit - 2, 0)),
                                     Part(TRUE, Str(0, FALSE, 1, 0))>>))}

\* one reply of each sort the field client tells apart
ShellApi ==
    ApiFailures \cup
    {ApiOutcome("reply", c) :
        c \in {<<"{", "k", "}">>, <<"{", "}">>, <<"{", "e", "}">>,
               <<"n">>, <<"s">>, <<"a">>, <<"p">>,
               <<"p", "{", "k", "}">>, <<"{", "p", "}">>,
               <<"{", "k", "}", "{", "k", "}">>}}

ShellChat ==
    {ChatOutcome("timeout", Empty),
     ChatOutcome("reply", Str(MaxWs, FALSE, 2 * ShortLimit, MaxWs))}

\* two users, each with a text file of its own
RaceUploads(s) == {Upload("txt", TxtDoc(Str(0, FALSE, ShortLimit + s, 0)))}

RaceApi == {ApiOutcome("timeout", << >>), ApiOutcome("reply", <<"{", "k", "}">>)}

RaceChat == {ChatOutcome("reply", Str(0, FALSE, 2 * ShortLimit, 0))}

----------------------------------------------------------------------------
(* One user *)

Init == ShellInit /\ FnIdle

Next ==
    \/ UserUpload(1, ShellUploads)
    \/ ClickExtract(1)
    \/ ClickConvert(1)
    \/ WriteUpload(1)
    \/ ExtractText(1)
    \/ Branch(1)
    \/ CallExtractFields(1, ShellApi)
    \/ CallIntro(1, ShellChat)

Spec == Init /\ [][Next]_vars

(* Several users at once: each pass is a sequence of steps of its session,  *)
(* and the steps of different sessions interleave.                          *)

NextRace ==
    \E s \in Sessions :
        \/ UserUpload(s, RaceUploads(s))
        \/ ClickExtract(s)
        \/ ClickConvert(s)
        \/ WriteUpload(s)
        \/ ExtractText(s)
        \/ Branch(s)
        \/ CallExtractFields(s, RaceApi)
        \/ CallIntro(s, RaceChat)

SpecRace == Init /\ [][NextRace]_vars

(* The two functions called directly, on any input *)

InitFn ==
    /\ ShellInit
    /\ \/ /\ txt_in \in [doc : FnDocs, file_type : TypeTags, called : {FALSE}]
          /\ txt_out = Empty
          /\ api_in = [api |-> ApiOutcome("none", << >>), called |-> FALSE]
          /\ api_out = None
       \/ /\ api_in \in [api : ApiFailures \cup {ApiOutcome("reply", c) : c \in Replies},
                         called : {FALSE}]
          /\ api_out = None
          /\ txt_in = [doc |-> NoDoc, file_type |-> "none", called |-> FALSE]
          /\ txt_out = Empty

CallExtractText ==
    /\ txt_in.file_type # "none"
    /\ ~txt_in.called
    /\ txt_out' = extract_text(txt_in.doc, txt_in.file_type)
    /\ txt_in' = [txt_in EXCEPT !.called = TRUE]
    /\ UNCHANGED <<shell_vars, api_in, api_out>>

CallExtractJobFields ==
    /\ api_in.api.kind # "none"
    /\ ~api_in.called
    /\ api_out' = extract_job_fields(api_in.api)
    /\ api_in' = [api_in EXCEPT !.called = TRUE]
    /\ UNCHANGED <<shell_vars, txt_in, txt_out>>

NextFn == CallExtractText \/ CallExtractJobFields

SpecFn == InitFn /\ [][NextFn]_vars

----------------------------------------------------------------------------
(* Properties *)

\* the pass of session s has called f
Called(s, f) == \E i \in DOMAIN calls[s] : calls[s][i] = f

\* the pass of session s has called f and, later, g
Before(s, f, g) ==
    \E i, j \in DOMAIN calls[s] : i < j /\ calls[s][i] = f /\ calls[s][j] = g

\* the pass of session s has run to its end
PassOver(s) == pc[s] = "idle" /\ clicked[s] # "none"

\* the pass has extracted a text that is no read error and is under the threshold
ShortText(s) ==
    /\ Called(s, "extract_text")
    /\ ~StartsWithMarker(job_text[s])
    /\ StrLen(job_text[s]) < ShortLimit

\* C1: the field request is issued only after extract_text has returned a
\* text that is not the __READ_ERROR__ sentinel, and the introduction
\* request only after extract_job_fields has returned a record (an object)
\* that carries no error field.
C1_StageOrder ==
    \A s \in Sessions :
        /\ Called(s, "extract_job_fields") =>
              /\ Before(s, "extract_text", "extract_job_fields")
              /\ ~StartsWithMarker(job_text[s])
        /\ Called(s, "generate_job_intro") =>
              /\ Before(s, "extract_job_fields", "generate_job_intro")
              /\ job_json[s].kind = "dict"
              /\ ~HasError(job_json[s])

\* C2: when the user presses "Convert to Audio" under an introduction that
\* was generated without error, the pass that the press starts invokes the
\* speech synthesizer.
C2_ConvertReachesAudio ==
    \A s \in Sessions :
        (PassOver(s) /\ clicked[s] = "convert" /\ ~intro_seen[s].error)
            => Called(s, "tts_to_file")

\* C3: in a pass where generate_job_intro returned its error string the
\* shell does not offer "Convert to Audio", and no error string is ever the
\* text written to job_intro.wav.
C3_AudioGatedByIntro ==
    /\ \A s \in Sessions : job_intro[s].error => "convert_button" \notin shown[s]
    /\ audio_file.written => ~audio_file.intro.error

\* C4 as claimed: a pass whose text is short (and no read error) shows the
\* warning and still offers "Extract Job Fields".
C4_ShortTextNotBlocked ==
    \A s \in Sessions :
        (PassOver(s) /\ ShortText(s))
            => {"short_warning", "extract_button"} \subseteq shown[s]

\* C4 as amended: a pass whose text is short (and no read error) shows the
\* warning and ends there: it does not offer "Extract Job Fields" and issues
\* no field request.
C4_ShortTextBlocks ==
    \A s \in Sessions :
        (ShortText(s) /\ pc[s] # "branch")
            => /\ "short_warning" \in shown[s]
               /\ "extract_button" \notin shown[s]
               /\ ~Called(s, "extract_job_fields")
               /\ pc[s] = "idle"

\* C4 witness: a pass has ended on a short text with the warning on screen.
C4_ShortTextSeen ==
    \E s \in Sessions :
        PassOver(s) /\ ShortText(s) /\ "short_warning" \in shown[s]

StageCalls == {"extract_job_fields", "generate_job_intro", "tts_to_file"}

C6_NoUnhandledFault == \A s \in Sessions : ~fault[s]

\* C7: for a reply that json.loads rejects as a whole and through its
\* brace-delimited substring (or that has none), extract_job_fields returns
\* the record of exactly an error field and the raw reply.
C7_UnparseableKeepsRaw ==
    LET c == api_in.api.content IN
        ( /\ api_in.called
          /\ api_in.api.kind = "reply"
          /\ JsonFails(c)
          /\ HasBraces(c) => JsonFails(BraceMatch(c)) )
            => api_out = NoJsonRecord(c)

\* C8: for a type tag other than pdf, docx and txt, and for a file that
\* fails to read, extract_text returns a string that starts with
\* __READ_ERROR__.
C8_UnreadableGivesSentinel ==
    ( /\ txt_in.called
      /\ txt_in.file_type \notin Exts \/ ~txt_in.doc.ok )
        => StartsWithMarker(txt_out)

\* C9: after a successful extraction the shell takes the short-text path
\* exactly when the text has fewer than 50 characters: a shorter text gets
\* the warning and not the read-error message, a text of 50 or more gets
\* the text display and the extraction button.
C9_ShortPathIffShort ==
    \A s \in Sessions :
        (PassOver(s) /\ Called(s, "extract_text") /\ read_ok[s]) =>
            IF StrLen(job_text[s]) < ShortLimit
            THEN "short_warning" \in shown[s] /\ "read_error" \notin shown[s]
            ELSE /\ {"text_area", "extract_button"} \subseteq shown[s]
                 /\ "short_warning" \notin shown[s]

\* C10: nothing makes a session's write of the scratch file and its read
\* of it atomic: while one session stands between the two, the write of
\* another session to the same path can go ahead.
C10_NoExclusion ==
    \A s, t \in Sessions :
        ( /\ s # t
          /\ pc[s] = "read"
          /\ pc[t] = "write"
          /\ file_ext(s) = file_ext(t) )
            => ENABLED WriteUpload(t)

\* C10 witness: a session has sent a field request whose text is the
\* extraction of another session's upload and not of its own.
C10_CrossRead ==
    \E s \in Sessions :
        /\ Called(s, "extract_job_fields")
        /\ read_of[s] \in Sessions \ {s}
        /\ req_text[s] = extract_text(uploaded_file[read_of[s]].doc, file_ext(s))
        /\ req_text[s] # extract_text(uploaded_file[s].doc, file_ext(s))

====
